---- MODULE Spec2Model ----
(***************************************************************************)
(* A model of the SMTP front-end of smtp-proxy: one SMTPSession            *)
(* (smtp/session.py) driven by the lines a client sends, the store the     *)
(* session hands completed messages to, and the text functions the         *)
(* handlers use (strip, split, upper, find, base64 decoding).              *)
(*                                                                         *)
(* Text is modelled as a sequence of one-character strings; a byte that    *)
(* is not printable is a token such as "NUL".  For the ASCII lines used    *)
(* here a byte string and its decoded text are the same sequence.          *)
(***************************************************************************)
EXTENDS Integers, Sequences, FiniteSets, TLC

----------------------------------------------------------------------------
(* Characters                                                              *)

\* The 128 ASCII characters, indexed by byte value + 1.
ASCII ==
  <<
    "NUL", "x01", "x02", "x03", "x04", "x05", "x06", "x07",
    "x08", "\t", "\n", "x0B", "x0C", "\r", "x0E", "x0F",
    "x10", "x11", "x12", "x13", "x14", "x15", "x16", "x17",
    "x18", "x19", "x1A", "x1B", "x1C", "x1D", "x1E", "x1F",
    " ", "!", "DQUOTE", "#", "$", "%", "&", "'",
    "(", ")", "*", "+", ",", "-", ".", "/",
    "0", "1", "2", "3", "4", "5", "6", "7",
    "8", "9", ":", ";", "<", "=", ">", "?",
    "@", "A", "B", "C", "D", "E", "F", "G",
    "H", "I", "J", "K", "L", "M", "N", "O",
    "P", "Q", "R", "S", "T", "U", "V", "W",
    "X", "Y", "Z", "[", "BSLASH", "]", "^", "_",
    "BTICK", "a", "b", "c", "d", "e", "f", "g",
    "h", "i", "j", "k", "l", "m", "n", "o",
    "p", "q", "r", "s", "t", "u", "v", "w",
    "x", "y", "z", "{", "|", "}", "~", "x7F" >>

NUL == "NUL"

\* chr(b) for an ASCII byte
Chr(b) == ASCII[b + 1]

LowerAlpha ==
  <<
    "a", "b", "c", "d", "e", "f", "g", "h", "i", "j", "k", "l", "m",
    "n", "o", "p", "q", "r", "s", "t", "u", "v", "w", "x", "y", "z" >>

UpperAlpha ==
  <<
    "A", "B", "C", "D", "E", "F", "G", "H", "I", "J", "K", "L", "M",
    "N", "O", "P", "Q", "R", "S", "T", "U", "V", "W", "X", "Y", "Z" >>

\* The base64 alphabet, indexed by value + 1.
B64Alphabet ==
  <<
    "A", "B", "C", "D", "E", "F", "G", "H", "I", "J", "K", "L", "M", "N", "O", "P",
    "Q", "R", "S", "T", "U", "V", "W", "X", "Y", "Z", "a", "b", "c", "d", "e", "f",
    "g", "h", "i", "j", "k", "l", "m", "n", "o", "p", "q", "r", "s", "t", "u", "v",
    "w", "x", "y", "z", "0", "1", "2", "3", "4", "5", "6", "7", "8", "9", "+", "/" >>

\* The ASCII whitespace of bytes.strip()
BytesWS == {" ", "\t", "\n", "\r", "x0B", "x0C"}

\* The ASCII whitespace of str.strip() and str.split()
WS == BytesWS \cup {"x1C", "x1D", "x1E", "x1F"}

----------------------------------------------------------------------------
(* Text functions                                                          *)

RECURSIVE LStripOf(_, _)
LStripOf(s, ws) == IF s # <<>> /\ Head(s) \in ws THEN LStripOf(Tail(s), ws) ELSE s

RECURSIVE RStripOf(_, _)
RStripOf(s, ws) ==
  IF s # <<>> /\ s[Len(s)] \in ws THEN RStripOf(SubSeq(s, 1, Len(s) - 1), ws) ELSE s

LStrip(s) == LStripOf(s, WS)

\* str.strip()
Strip(s) == RStripOf(LStripOf(s, WS), WS)

\* bytes.strip()
BytesStrip(s) == RStripOf(LStripOf(s, BytesWS), BytesWS)

UpperChar(c) ==
  IF \E k \in 1..26 : LowerAlpha[k] = c
  THEN UpperAlpha[CHOOSE k \in 1..26 : LowerAlpha[k] = c]
  ELSE c

\* str.upper()
Upper(s) == [i \in 1..Len(s) |-> UpperChar(s[i])]

\* Length of the leading run of non-whitespace characters of s.
RECURSIVE TokenLen(_)
TokenLen(s) == IF s = <<>> \/ Head(s) \in WS THEN 0 ELSE 1 + TokenLen(Tail(s))

\* str.split(): the maximal runs of non-whitespace characters.
RECURSIVE Split(_)
Split(s) ==
  LET t == LStrip(s)
      n == TokenLen(t)
  IN  IF t = <<>> THEN <<>>
      ELSE <<SubSeq(t, 1, n)>> \o Split(SubSeq(t, n + 1, Len(t)))

StartsWith(s, p) == Len(s) >= Len(p) /\ SubSeq(s, 1, Len(p)) = p

EndsWith(s, p) == Len(s) >= Len(p) /\ SubSeq(s, Len(s) - Len(p) + 1, Len(s)) = p

\* "p in s"
Contains(s, p) == \E i \in 0..(Len(s) - Len(p)) : SubSeq(s, i + 1, i + Len(p)) = p

\* s.index(p): 0-based position of the first occurrence (p occurs in s).
Index(s, p) ==
  CHOOSE i \in 0..(Len(s) - Len(p)) :
    /\ SubSeq(s, i + 1, i + Len(p)) = p
    /\ \A j \in 0..(i - 1) : SubSeq(s, j + 1, j + Len(p)) # p

\* s[k:] for a 0-based k
From(s, k) == SubSeq(s, k + 1, Len(s))

\* str.split(sep) for a one-character separator: always at least one field.
RECURSIVE SplitOn(_, _)
SplitOn(s, sep) ==
  IF \E i \in 1..Len(s) : s[i] = sep
  THEN LET i == CHOOSE i \in 1..Len(s) : s[i] = sep /\ \A j \in 1..(i - 1) : s[j] # sep
       IN  <<SubSeq(s, 1, i - 1)>> \o SplitOn(SubSeq(s, i + 1, Len(s)), sep)
  ELSE <<s>>

\* b"".join(lines)
RECURSIVE Join(_)
Join(ls) == IF ls = <<>> THEN <<>> ELSE Head(ls) \o Join(Tail(ls))

----------------------------------------------------------------------------
(* base64.b64decode(s).decode()                                            *)

Fail == [ok |-> FALSE, val |-> <<>>]

Ok(v) == [ok |-> TRUE, val |-> v]

IsB64(c) == \E k \in 1..64 : B64Alphabet[k] = c

B64Val(c) == (CHOOSE k \in 1..64 : B64Alphabet[k] = c) - 1

\* binascii.a2b_base64 in its default, non-strict mode: characters outside
\* the alphabet are skipped, a complete pad sequence ends the input, and an
\* incomplete final quad is an error.  The result is a sequence of bytes.
RECURSIVE A2B(_, _, _, _, _)
A2B(s, quad, left, pads, bin) ==
  IF s = <<>> THEN (IF quad # 0 THEN Fail ELSE Ok(bin))
  ELSE
    LET c == Head(s)
        r == Tail(s)
    IN  IF c = "="
        THEN IF quad >= 2 /\ quad + pads + 1 >= 4
             THEN Ok(bin)
             ELSE A2B(r, quad, left, (IF quad >= 2 THEN pads + 1 ELSE pads), bin)
        ELSE IF ~IsB64(c) THEN A2B(r, quad, left, pads, bin)
        ELSE
          LET v == B64Val(c)
          IN  CASE quad = 0 -> A2B(r, 1, v, 0, bin)
                [] quad = 1 ->
                     A2B(r, 2, v % 16, 0, Append(bin, (left * 4 + (v \div 16)) % 256))
                [] quad = 2 ->
                     A2B(r, 3, v % 4, 0, Append(bin, (left * 16 + (v \div 4)) % 256))
                [] quad = 3 ->
                     A2B(r, 0, 0, 0, Append(bin, (left * 64 + v) % 256))

B64Decode(s) == A2B(s, 0, 0, 0, <<>>)

\* bytes.decode(): strict UTF-8.  A byte below 128 is its ASCII character;
\* a byte of 128 or more is rejected (no input of this model carries a
\* well-formed multi-byte sequence).
Utf8Decode(bytes) ==
  IF \E i \in 1..Len(bytes) : bytes[i] >= 128 THEN Fail
  ELSE Ok([i \in 1..Len(bytes) |-> Chr(bytes[i])])

\* base64.b64decode(s).decode(): the decoded text, or a failure (an exception).
DecodeCredential(s) ==
  LET b == B64Decode(s)
  IN  IF b.ok THEN Utf8Decode(b.val) ELSE Fail

----------------------------------------------------------------------------
(* The words the handlers compare against                                  *)

EHLO_ == <<"E", "H", "L", "O">>

HELO_ == <<"H", "E", "L", "O">>

AUTH_ == <<"A", "U", "T", "H">>

MAIL_ == <<"M", "A", "I", "L">>

RCPT_ == <<"R", "C", "P", "T">>

DATA_ == <<"D", "A", "T", "A">>

RSET_ == <<"R", "S", "E", "T">>

QUIT_ == <<"Q", "U", "I", "T">>

NOOP_ == <<"N", "O", "O", "P">>

STARTTLS_ == <<"S", "T", "A", "R", "T", "T", "L", "S">>

PLAIN_ == <<"P", "L", "A", "I", "N">>

LOGIN_ == <<"L", "O", "G", "I", "N">>

FROM_ == <<"F", "R", "O", "M", ":">>

TO_ == <<"T", "O", ":">>

SP == <<" ">>

CRLF == <<"\r", "\n">>

LF == <<"\n">>

DOT == <<".">>

----------------------------------------------------------------------------
(* The client's lines                                                      *)

\* base64 of "\0a\0b", "\0a\0c", "\0\0", "a" and "b"
B64_0a0b == <<"A", "G", "E", "A", "Y", "g", "=", "=">>

B64_0a0c == <<"A", "G", "E", "A", "Y", "w", "=", "=">>

B64_00 == <<"A", "A", "A", "=">>

\* base64 of "\0a\0b\0x": four fields
B64_0a0b0x == <<"A", "G", "E", "A", "Y", "g", "B", "4">>

B64_a == <<"Y", "Q", "=", "=">>

B64_b == <<"Y", "g", "=", "=">>

\* The lines a client sends in this model, as the bytes on the wire.
Lines ==
  << EHLO_ \o SP \o <<"x">> \o CRLF,
     <<"h", "e", "l", "o">> \o SP \o <<"x">> \o CRLF,
     AUTH_ \o SP \o PLAIN_ \o SP \o B64_0a0b \o CRLF,
     AUTH_ \o SP \o PLAIN_ \o SP \o B64_0a0c \o CRLF,
     AUTH_ \o SP \o PLAIN_ \o SP \o B64_00 \o CRLF,
     AUTH_ \o SP \o PLAIN_ \o SP \o B64_0a0b0x \o CRLF,
     AUTH_ \o SP \o PLAIN_ \o CRLF,
     B64_0a0b \o CRLF,
     AUTH_ \o SP \o LOGIN_ \o CRLF,
     B64_a \o CRLF,
     B64_b \o CRLF,
     AUTH_ \o CRLF,
     AUTH_ \o SP \o <<"X">> \o CRLF,
     MAIL_ \o SP \o FROM_ \o <<"<", "a", ">">> \o CRLF,
     <<"m", "a", "i", "l">> \o SP \o <<"f", "r", "o", "m", ":">> \o SP
        \o <<"<", "c", ">">> \o SP \o <<"S", "I", "Z", "E", "=", "9">> \o CRLF,
     MAIL_ \o SP \o FROM_ \o <<"<", ">">> \o CRLF,
     MAIL_ \o CRLF,
     RCPT_ \o SP \o TO_ \o <<"<", "a", ">">> \o CRLF,
     <<"r", "c", "p", "t">> \o SP \o <<"t", "o", ":">> \o SP \o <<"b">> \o CRLF,
     RCPT_ \o CRLF,
     DATA_ \o CRLF,
     <<"a">> \o CRLF,
     DOT \o CRLF,
     DOT \o LF,
     DOT \o DOT \o CRLF,
     DOT \o <<"a">> \o CRLF,
     RSET_ \o CRLF,
     NOOP_ \o CRLF,
     QUIT_ \o CRLF,
     STARTTLS_ \o CRLF,
     CRLF >>

LineIds == 1..Len(Lines)

\* The line a client may send behind another one in the same segment, so
\* that it sits in the reader's buffer while the first is handled.
Pipelined == {i \in LineIds : Lines[i] = MAIL_ \o SP \o FROM_ \o <<"<", "a", ">">> \o CRLF}

----------------------------------------------------------------------------
(* Bounds and configuration                                                *)

\* config.max_recipients of the configurations explored
MaxRecipients == 2

\* config.max_message_bytes of the configurations explored
MaxMessageBytes == 6

\* The client sends at most this many lines on the connection.
MaxLines == 6

\* The same for a client that sends transaction commands only.
MaxTxnLines == 8

\* The same for the session of a server that is shut down.
MaxServerLines == 5

\* The connections a server has in its lifetime.  Connection 1 is the one
\* whose session the session variables describe.
MaxConns == 2

Conns == 1..MaxConns

\* Upper bound on the lines accumulated by the DATA loop after end of file.
MaxBodyLines == 3

\* (auth.username, auth.password) pairs explored
Credentials == { <<<<"a">>, <<"b">>>>, <<<<>>, <<>>>> }

\* SMTPConfig: the options the session reads.
Configs ==
  { [ domain |-> "localhost",
      required |-> r, username |-> c[1], password |-> c[2],
      tls_enabled |-> t,
      max_recipients |-> MaxRecipients,
      max_message_bytes |-> MaxMessageBytes ] :
    r \in BOOLEAN, t \in BOOLEAN, c \in Credentials }

----------------------------------------------------------------------------
(* State                                                                   *)

VARIABLES
  cfg,            \* SMTPSession.config
  pc,             \* where the session coroutine is suspended: the read it awaits
  authenticated,  \* SMTPSession.authenticated
  auth_user,      \* SMTPSession.auth_user
  mail_from,      \* SMTPSession.mail_from
  rcpt_to,        \* SMTPSession.rcpt_to
  tls,            \* the writer's transport is the TLS transport
  username,       \* _handle_auth_login's local, between its two reads
  data,           \* _handle_data's local list of body lines
  total_size,     \* _handle_data's local running total
  store,          \* the emails handed to EmailRepository.create, in order
  rbuf,           \* complete lines waiting in the StreamReader's buffer
  conn,           \* the read side of the connection: "open", "eof" or "reset"
  out,            \* the reply lines the last step passed to _send
  sent,           \* the number of lines the client has sent
  budget,         \* the number of lines the client sends at most
  since,          \* history: what has happened since the connection started
                  \* or was last upgraded to TLS (ehlo: an EHLO or HELO was
                  \* handled; auth: an AUTH succeeded)
  txn,            \* history: what was answered 250 since the session last
                  \* started a transaction afresh (mail: the address of the
                  \* last MAIL; rcpts: the addresses of the RCPTs, in order)
  server,         \* SMTPServer: shutdown_event (_shutdown_event is set),
                  \* listener ("open" until _server is closed),
                  \* active_connections (_active_connections), closing (the
                  \* writers close() was called on), stage (of each
                  \* connection: "none" not connected, "accepted" by the
                  \* event loop with _handle_client yet to start, "handling"
                  \* inside _handle_client, "done") and shutdown_pc (where
                  \* shutdown() is: "idle" not called, "waiting" for the
                  \* writers to close, "done")
  rsets,          \* history: the number of RSET commands handled in a row
                  \* by the last steps, 0 when the last step handled none
  orig,           \* history: the body the client is transmitting in the data
                  \* phase, before dot-stuffing (ok: every line sent so far
                  \* is the stuffed form of a line; body: those lines)
  exit            \* why handle() returned, "none" while it runs

\* No MAIL and no RCPT answered 250 yet.
NoTxn == [mail |-> <<>>, rcpts |-> <<>>]

\* No body line transmitted yet.
NoOrig == [ok |-> TRUE, body |-> <<>>]

vars ==
  << cfg, pc, authenticated, auth_user, mail_from, rcpt_to, tls, username,
     data, total_size, store, rbuf, conn, out, sent, budget, server, since,
     txn, rsets, orig,
     exit >>

\* SMTPSession.__init__ and the start of handle(): the greeting is sent and
\* the session awaits its first command.
Fresh ==
  /\ pc = "cmd"
  /\ authenticated = FALSE
  /\ auth_user = <<>>
  /\ mail_from = <<>>
  /\ rcpt_to = <<>>
  /\ tls = FALSE
  /\ username = <<>>
  /\ data = <<>>
  /\ total_size = 0
  /\ store = <<>>
  /\ rbuf = <<>>
  /\ conn = "open"
  /\ out = <<"220 localhost SMTP Ready">>
  /\ sent = 0
  /\ server = [ shutdown_event |-> FALSE,
                 listener |-> "open",
                 active_connections |-> {1},
                 closing |-> {},
                 stage |-> [c \in Conns |-> IF c = 1 THEN "handling" ELSE "none"],
                 shutdown_pc |-> "idle" ]
  /\ since = [ehlo |-> FALSE, auth |-> FALSE]
  /\ txn = NoTxn
  /\ rsets = 0
  /\ orig = NoOrig
  /\ exit = "none"

\* A session under any configuration, whose client sends MaxLines lines at
\* most.
Init ==
  /\ cfg \in Configs
  /\ budget = MaxLines
  /\ Fresh

----------------------------------------------------------------------------
(* What the handlers compute from a line                                   *)

\* command = line.decode("utf-8", errors="replace").strip()
Command(line) == Strip(line)

\* parts = line.split(None, 1); cmd = parts[0].upper()
Verb(line) ==
  LET parts == Split(Command(line))
  IN  IF parts = <<>> THEN <<>> ELSE Upper(parts[1])

KnownVerbs ==
  { EHLO_, HELO_, AUTH_, MAIL_, RCPT_, DATA_, RSET_, QUIT_, NOOP_, STARTTLS_ }

\* "if addr.startswith("<") and addr.endswith(">"): addr = addr[1:-1]"
Unbracket(addr) ==
  IF StartsWith(addr, <<"<">>) /\ EndsWith(addr, <<">">>)
  THEN SubSeq(addr, 2, Len(addr) - 1)
  ELSE addr

\* "if "FROM:" not in upper_line"
HasFrom(command) == Contains(Upper(command), FROM_)

\* The address _handle_mail takes from a command that holds FROM:
MailAddress(command) ==
  LET idx == Index(Upper(command), FROM_)
      addr == Strip(From(command, idx + 5))
      tok == IF Contains(addr, SP) THEN Split(addr)[1] ELSE addr
  IN  Unbracket(tok)

\* "if "TO:" not in upper_line"
HasTo(command) == Contains(Upper(command), TO_)

\* The address _handle_rcpt takes from a command that holds TO:
RcptAddress(command) ==
  LET idx == Index(Upper(command), TO_)
      addr == Strip(From(command, idx + 3))
  IN  Unbracket(addr)

\* The try block of _handle_auth_plain up to the comparison: the user name
\* and password of the blob, or a failure (an exception).
PlainFields(credentials) ==
  LET decoded == DecodeCredential(credentials)
      parts == SplitOn(decoded.val, NUL)
  IN  IF ~decoded.ok THEN Fail
      ELSE IF Len(parts) >= 3 THEN Ok(<<parts[2], parts[3]>>)
      ELSE IF Len(parts) = 2 THEN Ok(<<parts[1], parts[2]>>)
      ELSE Fail

\* len(parts) of "parts = decoded.split("\0")" in _handle_auth_plain, 0
\* when the decoding raised before
PlainFieldCount(credentials) ==
  LET decoded == DecodeCredential(credentials)
  IN  IF decoded.ok THEN Len(SplitOn(decoded.val, NUL)) ELSE 0

\* base64.b64decode(line.strip()).decode() of _handle_auth_login
LoginField(line) == DecodeCredential(BytesStrip(line))

\* A data loop that takes every line starting with "." for the terminator.
IsTerminator_DotLine(line) == StartsWith(line, DOT)

\* "if line in (b".\r\n", b".\n")"
IsTerminator(line) == line \in {DOT \o CRLF, DOT \o LF}

\* A data loop that leaves every line as it was read.
Unstuff_Never(line) == line

\* "if line.startswith(b".."): line = line[1:]"
Unstuff(line) == IF StartsWith(line, DOT \o DOT) THEN Tail(line) ELSE line

\* Dot-stuffing, the client's side of the transparency procedure: a body
\* line that starts with "." is sent with one more "." before it.
Stuff(line) == IF StartsWith(line, DOT) THEN DOT \o line ELSE line

\* The body lines whose stuffed form is the line sent: one, or none when the
\* line sent starts with a single ".".
Originals(line) ==
  { o \in {line} \cup (IF line # <<>> THEN {Tail(line)} ELSE {}) : Stuff(o) = line }

\* All of the above for one line as read from the connection.
Parse(line) ==
  LET command == Command(line)
      parts == Split(command)
  IN  [ line |-> line,
        command |-> command,
        verb |-> Verb(line),
        has_from |-> HasFrom(command),
        mail_addr |-> IF HasFrom(command) THEN MailAddress(command) ELSE <<>>,
        has_to |-> HasTo(command),
        rcpt_addr |-> IF HasTo(command) THEN RcptAddress(command) ELSE <<>>,
        parts |-> Len(parts),
        mechanism |-> IF Len(parts) >= 2 THEN Upper(parts[2]) ELSE <<>>,
        inline |-> IF Len(parts) >= 3 THEN PlainFields(parts[3]) ELSE Fail,
        blob |-> PlainFields(Strip(line)),
        inline_n |-> IF Len(parts) >= 3 THEN PlainFieldCount(parts[3]) ELSE 0,
        blob_n |-> PlainFieldCount(Strip(line)),
        login |-> LoginField(line),
        terminator |-> IsTerminator(line),
        body |-> Unstuff(line),
        originals |-> Originals(line) ]

\* Parse of every client line, and (at 0) of the empty byte string that
\* readline() returns at end of file.
Parsed == [i \in 0..Len(Lines) |-> Parse(IF i = 0 THEN <<>> ELSE Lines[i])]

----------------------------------------------------------------------------
(* Reading a line                                                          *)

\* What an open connection with nothing buffered can deliver to the next
\* readline(): a line the client sends (one: it still has a line to send),
\* possibly with another one behind it in the same segment (more: and one
\* more), received over TLS or not (secure); or silence until the timeout,
\* or end of file, or a connection reset.
Arrivals ==
  [ one \in BOOLEAN, more \in BOOLEAN, secure \in BOOLEAN |->
      { [kind |-> "line", id |-> l, rest |-> r, conn |-> "open", n |-> 1 + Len(r)] :
        l \in (IF one THEN LineIds ELSE {}),
        r \in {<<>>} \cup
              { <<[line |-> f, secure |-> secure]>> :
                f \in (IF more THEN Pipelined ELSE {}) } }
      \cup { [kind |-> "timeout", id |-> 0, rest |-> <<>>, conn |-> "open", n |-> 0],
             [kind |-> "eof", id |-> 0, rest |-> <<>>, conn |-> "eof", n |-> 0],
             [kind |-> "reset", id |-> 0, rest |-> <<>>, conn |-> "reset", n |-> 0] } ]

\* What "await asyncio.wait_for(self.reader.readline(), timeout)" can
\* produce next.  A line already in the reader's buffer is returned first.
\* Otherwise an open connection delivers one of its Arrivals; after end of
\* file every read returns the empty byte string, after a reset every read
\* raises.  id is the line's place in Lines, 0 when no line was read; n is
\* the number of lines the client sent for this read.
Reads ==
  IF rbuf # <<>>
  THEN { [kind |-> "line", id |-> rbuf[1].line, rest |-> Tail(rbuf), conn |-> conn,
          n |-> 0] }
  ELSE CASE conn = "open" ->
              Arrivals[sent < budget, sent + 1 < budget, tls]
         [] conn = "eof" ->
              { [kind |-> "eof", id |-> 0, rest |-> <<>>, conn |-> "eof", n |-> 0] }
         [] conn = "reset" ->
              { [kind |-> "reset", id |-> 0, rest |-> <<>>, conn |-> "reset", n |-> 0] }

\* A command line with one of the given verbs is read in the command loop.
Dispatch(r, verbs) ==
  /\ pc = "cmd"
  /\ r.kind = "line"
  /\ Parsed[r.id].command # <<>>
  /\ Parsed[r.id].verb \in verbs

\* The step consumed read r and sent the reply lines replies.
Io(r, replies) ==
  /\ rbuf' = r.rest
  /\ conn' = r.conn
  /\ out' = replies
  /\ sent' = sent + r.n
  /\ rsets' = IF Dispatch(r, {RSET_}) THEN rsets + 1 ELSE 0

\* The session goes on to await a read at p.
Goto(p) == pc' = p /\ exit' = exit /\ server' = server

\* A runner whose finally block leaves the writer registered.
Close_Registered(why) ==
  /\ pc' = "closed"
  /\ exit' = why
  /\ server' = [server EXCEPT !.closing = @ \cup {1}, !.stage[1] = "done"]

\* handle() returns: the loop is left, or an exception leaves it.  Its
\* finally block closes the writer, and that of _handle_client takes the
\* writer out of the active connections.
Close(why) ==
  /\ pc' = "closed"
  /\ exit' = why
  /\ server' = [server EXCEPT !.active_connections = @ \ {1},
                              !.closing = @ \cup {1},
                              !.stage[1] = "done"]

----------------------------------------------------------------------------
(* The command loop of handle()                                            *)

AuthFrame == UNCHANGED <<authenticated, auth_user>>

TxnFrame == UNCHANGED <<mail_from, rcpt_to>>

DataFrame == UNCHANGED <<data, total_size>>

\* What no command handler but STARTTLS, AUTH LOGIN or DATA touches.
RestFrame == UNCHANGED <<cfg, budget, tls, username, store>>

HistFrame == UNCHANGED <<since, txn, orig>>

\* "if not line: break"
CommandEOF ==
  \E r \in Reads :
    /\ pc = "cmd"
    /\ r.kind = "eof"
    /\ Io(r, <<>>)
    /\ Close("eof")
    /\ AuthFrame /\ TxnFrame /\ DataFrame /\ RestFrame /\ HistFrame

\* "except asyncio.TimeoutError" of the command loop
CommandTimeout ==
  \E r \in Reads :
    /\ pc = "cmd"
    /\ r.kind = "timeout"
    /\ Io(r, <<"421 Timeout">>)
    /\ Close("timeout")
    /\ AuthFrame /\ TxnFrame /\ DataFrame /\ RestFrame /\ HistFrame

\* "except (ConnectionResetError, BrokenPipeError): pass"
CommandReset ==
  \E r \in Reads :
    /\ pc = "cmd"
    /\ r.kind = "reset"
    /\ Io(r, <<>>)
    /\ Close("reset")
    /\ AuthFrame /\ TxnFrame /\ DataFrame /\ RestFrame /\ HistFrame

\* "if not command: continue"
EmptyLine ==
  \E r \in Reads :
    /\ pc = "cmd"
    /\ r.kind = "line"
    /\ Parsed[r.id].command = <<>>
    /\ Io(r, <<>>)
    /\ Goto("cmd")
    /\ AuthFrame /\ TxnFrame /\ DataFrame /\ RestFrame /\ HistFrame

\* The final else of _process_command
UnknownCommand ==
  \E r \in Reads :
    /\ pc = "cmd"
    /\ r.kind = "line"
    /\ Parsed[r.id].command # <<>>
    /\ Parsed[r.id].verb \notin KnownVerbs
    /\ Io(r, <<"500 Unknown command">>)
    /\ Goto("cmd")
    /\ AuthFrame /\ TxnFrame /\ DataFrame /\ RestFrame /\ HistFrame

HandleQuit ==
  \E r \in Reads :
    /\ Dispatch(r, {QUIT_})
    /\ Io(r, <<"221 Bye">>)
    /\ Close("quit")
    /\ AuthFrame /\ TxnFrame /\ DataFrame /\ RestFrame /\ HistFrame

HandleNoop ==
  \E r \in Reads :
    /\ Dispatch(r, {NOOP_})
    /\ Io(r, <<"250 OK">>)
    /\ Goto("cmd")
    /\ AuthFrame /\ TxnFrame /\ DataFrame /\ RestFrame /\ HistFrame

\* The extension lines _handle_ehlo sends; the SIZE line also carries
\* config.max_message_bytes, which is left out here.
EhloReply ==
  <<"250-localhost Hello">>
  \o (IF cfg.required \/ cfg.username # <<>> THEN <<"250-AUTH PLAIN LOGIN">> ELSE <<>>)
  \o (IF cfg.tls_enabled THEN <<"250-STARTTLS">> ELSE <<>>)
  \o <<"250-SIZE", "250 OK">>

\* _handle_ehlo, for EHLO and HELO alike
HandleEhlo ==
  \E r \in Reads :
    /\ Dispatch(r, {EHLO_, HELO_})
    /\ Io(r, EhloReply)
    /\ Goto("cmd")
    /\ since' = [since EXCEPT !.ehlo = TRUE]
    /\ UNCHANGED <<txn, orig>>
    /\ AuthFrame /\ TxnFrame /\ DataFrame /\ RestFrame

\* A reset that forgets the sender and only the first of the recipients.
ResetTransaction_DropOne ==
  /\ mail_from' = <<>>
  /\ rcpt_to' = IF rcpt_to = <<>> THEN <<>> ELSE Tail(rcpt_to)

\* A reset that forgets the recipients and keeps the sender.
ResetTransaction_KeepMail ==
  /\ mail_from' = mail_from
  /\ rcpt_to' = <<>>

\* A reset that forgets the sender and keeps the recipients.
ResetTransaction_KeepRcpt ==
  /\ mail_from' = <<>>
  /\ rcpt_to' = rcpt_to

\* _reset_transaction
ResetTransaction ==
  /\ mail_from' = <<>>
  /\ rcpt_to' = <<>>

HandleRset ==
  \E r \in Reads :
    /\ Dispatch(r, {RSET_})
    /\ ResetTransaction
    /\ Io(r, <<"250 OK">>)
    /\ Goto("cmd")
    /\ txn' = NoTxn
    /\ UNCHANGED <<since, orig>>
    /\ AuthFrame /\ DataFrame /\ RestFrame

----------------------------------------------------------------------------
(* MAIL, RCPT                                                              *)

\* A session that never asks for authentication.
NeedsAuth_Never == FALSE

\* "if self.config.auth.required and not self.authenticated"
NeedsAuth == cfg.required /\ ~authenticated

\* _handle_mail on the line of read r
HandleMailLine(r) ==
    /\ Dispatch(r, {MAIL_})
    /\ IF NeedsAuth
       THEN Io(r, <<"530 Authentication required">>) /\ TxnFrame /\ HistFrame
       ELSE IF ~Parsed[r.id].has_from
       THEN Io(r, <<"501 Syntax error">>) /\ TxnFrame /\ HistFrame
       ELSE /\ mail_from' = Parsed[r.id].mail_addr
            /\ rcpt_to' = rcpt_to
            /\ Io(r, <<"250 OK">>)
            /\ txn' = [txn EXCEPT !.mail = Parsed[r.id].mail_addr]
            /\ UNCHANGED <<since, orig>>
    /\ Goto("cmd")
    /\ AuthFrame /\ DataFrame /\ RestFrame

HandleMail == \E r \in Reads : HandleMailLine(r)

\* A limit that lets one recipient too many in.
TooManyRecipients_OffByOne == Len(rcpt_to) > cfg.max_recipients

\* "if len(self.rcpt_to) >= self.config.max_recipients"
TooManyRecipients == Len(rcpt_to) >= cfg.max_recipients

\* _handle_rcpt on the line of read r
HandleRcptLine(r) ==
    /\ Dispatch(r, {RCPT_})
    /\ IF NeedsAuth
       THEN Io(r, <<"530 Authentication required">>) /\ TxnFrame /\ HistFrame
       ELSE IF TooManyRecipients
       THEN Io(r, <<"452 Too many recipients">>) /\ TxnFrame /\ HistFrame
       ELSE IF ~Parsed[r.id].has_to
       THEN Io(r, <<"501 Syntax error">>) /\ TxnFrame /\ HistFrame
       ELSE /\ rcpt_to' = Append(rcpt_to, Parsed[r.id].rcpt_addr)
            /\ mail_from' = mail_from
            /\ Io(r, <<"250 OK">>)
            /\ txn' = [txn EXCEPT !.rcpts = Append(@, Parsed[r.id].rcpt_addr)]
            /\ UNCHANGED <<since, orig>>
    /\ Goto("cmd")
    /\ AuthFrame /\ DataFrame /\ RestFrame

HandleRcpt == \E r \in Reads : HandleRcptLine(r)

----------------------------------------------------------------------------
(* AUTH                                                                    *)

\* A comparison that looks at the user name only.
CredentialsMatch_Unchecked(user, password) == user = cfg.username

\* "username == self.config.auth.username and password == self.config.auth.password"
CredentialsMatch(user, password) ==
  /\ user = cfg.username
  /\ password = cfg.password

\* The comparison that ends _handle_auth_plain: the user name the decoded
\* fields authenticate, or a failure (an exception before, or a mismatch).
PlainResult(fields) ==
  IF fields.ok /\ CredentialsMatch(fields.val[1], fields.val[2])
  THEN Ok(fields.val[1])
  ELSE Fail

\* The end of both mechanisms: 235 and the session is authenticated, or 535
\* and the session state is left as it was.
Authenticate(r, res) ==
  IF res.ok
  THEN /\ authenticated' = TRUE
       /\ auth_user' = res.val
       /\ Io(r, <<"235 Authentication successful">>)
       /\ since' = [since EXCEPT !.auth = TRUE]
       /\ UNCHANGED <<txn, orig>>
  ELSE /\ AuthFrame
       /\ Io(r, <<"535 Authentication failed">>)
       /\ HistFrame

\* _handle_auth, up to the first read of a continuation line, on the line
\* of read r
HandleAuthLine(r) ==
    /\ Dispatch(r, {AUTH_})
    /\ LET p == Parsed[r.id]
       IN  IF p.parts < 2
           THEN Io(r, <<"501 Syntax error">>) /\ Goto("cmd") /\ AuthFrame /\ HistFrame
           ELSE IF p.mechanism \notin {PLAIN_, LOGIN_}
           THEN /\ Io(r, <<"504 Unsupported authentication mechanism">>)
                /\ Goto("cmd") /\ AuthFrame /\ HistFrame
           ELSE IF p.mechanism = PLAIN_
           THEN IF p.parts = 3
                THEN Authenticate(r, PlainResult(p.inline)) /\ Goto("cmd")
                ELSE Io(r, <<"334 ">>) /\ Goto("auth_plain") /\ AuthFrame /\ HistFrame
           ELSE /\ Io(r, <<"334 VXNlcm5hbWU6">>) /\ Goto("login_user")
                /\ AuthFrame /\ HistFrame
    /\ TxnFrame /\ DataFrame /\ RestFrame

HandleAuth == \E r \in Reads : HandleAuthLine(r)

\* _handle_auth_plain after "334 ": the read of the credentials line.  Only
\* the timeout is caught around the read; at end of file the empty line is
\* decoded like any other.
AuthPlainReadLine(r) ==
    /\ pc = "auth_plain"
    /\ CASE r.kind = "timeout" ->
              Io(r, <<"421 Timeout">>) /\ Close("timeout") /\ AuthFrame /\ HistFrame
         [] r.kind = "reset" ->
              Io(r, <<>>) /\ Close("reset") /\ AuthFrame /\ HistFrame
         [] OTHER ->
              Authenticate(r, PlainResult(Parsed[r.id].blob)) /\ Goto("cmd")
    /\ TxnFrame /\ DataFrame /\ RestFrame

AuthPlainRead == \E r \in Reads : AuthPlainReadLine(r)

\* _handle_auth_login: the read of the user name.  The whole exchange is
\* inside "try ... except Exception", which also catches the timeout and
\* the connection reset of the read.
AuthLoginUserLine(r) ==
    /\ pc = "login_user"
    /\ IF r.kind \in {"timeout", "reset"} \/ ~Parsed[r.id].login.ok
       THEN /\ Io(r, <<"535 Authentication failed">>)
            /\ Goto("cmd")
            /\ username' = <<>>
       ELSE /\ Io(r, <<"334 UGFzc3dvcmQ6">>)
            /\ Goto("login_pass")
            /\ username' = Parsed[r.id].login.val
    /\ AuthFrame /\ TxnFrame /\ DataFrame /\ HistFrame
    /\ UNCHANGED <<cfg, budget, tls, store>>

AuthLoginUser == \E r \in Reads : AuthLoginUserLine(r)

\* _handle_auth_login: the read of the password and the comparison
AuthLoginPassLine(r) ==
    /\ pc = "login_pass"
    /\ LET password == Parsed[r.id].login
       IN  IF r.kind \in {"timeout", "reset"} \/ ~password.ok
           THEN Authenticate(r, Fail)
           ELSE IF CredentialsMatch(username, password.val)
           THEN Authenticate(r, Ok(username))
           ELSE Authenticate(r, Fail)
    /\ Goto("cmd")
    /\ username' = <<>>
    /\ TxnFrame /\ DataFrame
    /\ UNCHANGED <<cfg, budget, tls, store>>

AuthLoginPass == \E r \in Reads : AuthLoginPassLine(r)

----------------------------------------------------------------------------
(* DATA                                                                    *)

\* A guard that lets every DATA command through.
BadSequence_Never == FALSE

\* A guard that looks at mail_from only.
BadSequence_NoRcpt == mail_from = <<>>

\* A guard that looks at rcpt_to only.
BadSequence_NoMail == rcpt_to = <<>>

\* "if not self.mail_from or not self.rcpt_to"
BadSequence == mail_from = <<>> \/ rcpt_to = <<>>

\* _handle_data up to the first read of the body
HandleData ==
  \E r \in Reads :
    /\ Dispatch(r, {DATA_})
    /\ IF NeedsAuth
       THEN Io(r, <<"530 Authentication required">>) /\ Goto("cmd")
       ELSE IF BadSequence
       THEN Io(r, <<"503 Bad sequence of commands">>) /\ Goto("cmd")
       ELSE Io(r, <<"354 Start mail input; end with <CRLF>.<CRLF>">>) /\ Goto("data")
    /\ data' = <<>>
    /\ total_size' = 0
    /\ orig' = NoOrig
    /\ UNCHANGED <<since, txn>>
    /\ AuthFrame /\ TxnFrame /\ RestFrame

\* A size check that never fires.
TooLarge_Never(total) == FALSE

\* A size check that already fires at the limit.
TooLarge_AtLimit(total) == total >= cfg.max_message_bytes

\* "if total_size > self.config.max_message_bytes"
TooLarge(total) == total > cfg.max_message_bytes

\* The Email _handle_data builds.  The subject and body the mail parser
\* extracts, the timestamp and the peer address are not modelled.
NewEmail(raw_message) ==
  [ sender |-> mail_from,
    recipients |-> rcpt_to,
    raw_message |-> raw_message,
    size_bytes |-> Len(raw_message),
    status |-> "received",
    auth_user |-> auth_user ]

\* The body transmitted so far once the line of read r has been sent.  At
\* end of file nothing more was sent and the body is cut short.
Transmitted(r) ==
  IF orig.ok /\ r.kind = "line" /\ Parsed[r.id].originals # {}
  THEN [ok |-> TRUE,
        body |-> orig.body \o (CHOOSE o \in Parsed[r.id].originals : TRUE)]
  ELSE [ok |-> FALSE, body |-> <<>>]

\* One pass of the read loop of _handle_data, on read r.  At end of file readline()
\* returns the empty byte string, which is appended like any other line.
\* The terminator leaves the loop: the message is built and handed to the
\* store, whose exception (created = FALSE) leaves handle().
DataReadLine(r, created) ==
    /\ pc = "data"
    /\ r.kind = "eof" => Len(data) < MaxBodyLines
    /\ CASE r.kind = "timeout" ->
              /\ Io(r, <<"421 Timeout">>) /\ Close("timeout")
              /\ TxnFrame /\ DataFrame /\ store' = store /\ HistFrame
         [] r.kind = "reset" ->
              /\ Io(r, <<>>) /\ Close("reset")
              /\ TxnFrame /\ DataFrame /\ store' = store /\ HistFrame
         [] OTHER ->
              IF Parsed[r.id].terminator
              THEN IF created
                   THEN /\ store' = Append(store, NewEmail(Join(data)))
                        /\ Io(r, <<"250 OK: Message accepted">>)
                        /\ ResetTransaction
                        /\ Goto("cmd")
                        /\ data' = <<>> /\ total_size' = 0
                        /\ txn' = NoTxn /\ orig' = NoOrig /\ since' = since
                   ELSE /\ Io(r, <<>>) /\ Close("error")
                        /\ TxnFrame /\ DataFrame /\ store' = store /\ HistFrame
              ELSE LET line == Parsed[r.id].body
                       total == total_size + Len(line)
                   IN  IF TooLarge(total)
                       THEN /\ Io(r, <<"552 Message too large">>)
                            /\ ResetTransaction
                            /\ Goto("cmd")
                            /\ data' = <<>> /\ total_size' = 0
                            /\ store' = store
                            /\ txn' = NoTxn /\ orig' = NoOrig /\ since' = since
                       ELSE /\ data' = Append(data, line)
                            /\ total_size' = total
                            /\ Io(r, <<>>)
                            /\ Goto("data")
                            /\ TxnFrame /\ store' = store
                            /\ orig' = Transmitted(r)
                            /\ UNCHANGED <<since, txn>>
    /\ AuthFrame
    /\ UNCHANGED <<cfg, budget, tls, username>>

DataRead == \E r \in Reads, created \in BOOLEAN : DataReadLine(r, created)

----------------------------------------------------------------------------
(* STARTTLS                                                                *)

\* An upgrade that forgets the authentication and keeps the transaction.
StartTlsReset_AuthOnly ==
  /\ authenticated' = FALSE
  /\ auth_user' = <<>>
  /\ TxnFrame

\* An upgrade that resets the transaction and keeps the authentication.
StartTlsReset_TxnOnly ==
  /\ AuthFrame
  /\ ResetTransaction

\* "Reset session state after STARTTLS"
StartTlsReset ==
  /\ authenticated' = FALSE
  /\ auth_user' = <<>>
  /\ ResetTransaction

\* _handle_starttls.  upgraded = FALSE is an exception of the try block
\* (the certificate does not load, the handshake fails).  The StreamReader
\* and the lines it has buffered are the same before and after.
HandleStarttls ==
  \E r \in Reads, upgraded \in BOOLEAN :
    /\ Dispatch(r, {STARTTLS_})
    /\ IF ~cfg.tls_enabled
       THEN /\ Io(r, <<"502 STARTTLS not available">>)
            /\ AuthFrame /\ TxnFrame /\ tls' = tls /\ HistFrame
       ELSE IF upgraded
       THEN /\ Io(r, <<"220 Ready to start TLS">>)
            /\ tls' = TRUE
            /\ StartTlsReset
            /\ since' = [ehlo |-> FALSE, auth |-> FALSE]
            /\ txn' = NoTxn
            /\ orig' = orig
       ELSE /\ Io(r, <<"220 Ready to start TLS", "454 TLS not available: <e>">>)
            /\ AuthFrame /\ TxnFrame /\ tls' = tls /\ HistFrame
    /\ Goto("cmd")
    /\ DataFrame
    /\ UNCHANGED <<cfg, budget, username, store>>

----------------------------------------------------------------------------
(* Specification                                                           *)

Next ==
  \/ CommandEOF
  \/ CommandTimeout
  \/ CommandReset
  \/ EmptyLine
  \/ UnknownCommand
  \/ HandleQuit
  \/ HandleNoop
  \/ HandleEhlo
  \/ HandleRset
  \/ HandleMail
  \/ HandleRcpt
  \/ HandleAuth
  \/ AuthPlainRead
  \/ AuthLoginUser
  \/ AuthLoginPass
  \/ HandleData
  \/ DataRead
  \/ HandleStarttls

Spec == Init /\ [][Next]_vars

\* The event loop resumes the session coroutine whenever the read it awaits
\* has completed: with a line, with end of file, with a timeout or with an
\* error of the transport.
SpecLive == Spec /\ WF_vars(Next)

----------------------------------------------------------------------------
(* SMTPServer                                                              *)

\* What the session variables describe is left as it is.
SessionFrame ==
  UNCHANGED << cfg, pc, authenticated, auth_user, mail_from, rcpt_to, tls,
               username, data, total_size, store, rbuf, out, sent, budget,
               since, txn, rsets, orig, exit >>

\* asyncio.start_server: the event loop accepts connection c on the
\* listening socket and schedules the task that will run _handle_client.
Accept(c) ==
  /\ c # 1
  /\ server.listener = "open"
  /\ server.stage[c] = "none"
  /\ server' = [server EXCEPT !.stage[c] = "accepted"]
  /\ conn' = conn
  /\ SessionFrame

\* _handle_client up to "await session.handle()": the writer is registered.
HandlerStart(c) ==
  /\ c # 1
  /\ server.stage[c] = "accepted"
  /\ server' = [server EXCEPT !.stage[c] = "handling",
                              !.active_connections = @ \cup {c}]
  /\ conn' = conn
  /\ SessionFrame

\* _handle_client after session.handle() has returned, for a connection
\* whose session is not described: it may return at any time.
HandlerEnd(c) ==
  /\ c # 1
  /\ server.stage[c] = "handling"
  /\ server' = [server EXCEPT !.stage[c] = "done",
                              !.active_connections = @ \ {c},
                              !.closing = @ \cup {c}]
  /\ conn' = conn
  /\ SessionFrame

\* shutdown() up to its first await: the event is set and close() is called
\* on every registered writer, which puts the reader of its session at end
\* of file; with no writer registered the listener is closed at once.
ShutdownBegin ==
  /\ server.shutdown_pc = "idle"
  /\ IF server.active_connections # {}
     THEN /\ server' = [server EXCEPT !.shutdown_event = TRUE,
                                      !.closing = @ \cup server.active_connections,
                                      !.shutdown_pc = "waiting"]
          /\ conn' = IF 1 \in server.active_connections /\ conn = "open"
                     THEN "eof" ELSE conn
     ELSE /\ server' = [server EXCEPT !.shutdown_event = TRUE,
                                      !.listener = "closed",
                                      !.shutdown_pc = "done"]
          /\ conn' = conn
  /\ SessionFrame

\* start(): "await self._shutdown_event.wait()" returns and the
\* "async with self._server" block is left, which closes the listener.
StartReturns ==
  /\ server.shutdown_event
  /\ server.listener = "open"
  /\ server' = [server EXCEPT !.listener = "closed"]
  /\ conn' = conn
  /\ SessionFrame

\* A shutdown() whose waits have no timeout: it goes on only when the runner
\* of every writer it closed has finished.
ShutdownFinish_NoTimeout ==
  /\ server.shutdown_pc = "waiting"
  /\ \A c \in server.closing : server.stage[c] = "done"
  /\ server' = [server EXCEPT !.active_connections = {},
                              !.listener = "closed",
                              !.shutdown_pc = "done"]
  /\ conn' = conn
  /\ SessionFrame

\* shutdown() after its waits, each of which ends when the writer is closed
\* or after 2 seconds: the set is cleared and the listener closed (the
\* wait_closed() of a closed asyncio.Server returns at once).
ShutdownFinish ==
  /\ server.shutdown_pc = "waiting"
  /\ server' = [server EXCEPT !.active_connections = {},
                              !.listener = "closed",
                              !.shutdown_pc = "done"]
  /\ conn' = conn
  /\ SessionFrame

\* A server with one session in progress, which asks for no authentication
\* and offers no STARTTLS, whose client sends MaxServerLines lines at most.
InitServer ==
  /\ cfg \in { c \in Configs : ~c.required /\ ~c.tls_enabled /\ c.username = <<>> }
  /\ budget = MaxServerLines
  /\ Fresh

\* The session receives a message or is left by its client while other
\* clients connect and the server is shut down.
NextServer ==
  \/ CommandEOF
  \/ CommandTimeout
  \/ HandleQuit
  \/ HandleMail
  \/ HandleRcpt
  \/ HandleData
  \/ DataRead
  \/ \E c \in Conns : Accept(c)
  \/ \E c \in Conns : HandlerStart(c)
  \/ \E c \in Conns : HandlerEnd(c)
  \/ ShutdownBegin
  \/ StartReturns
  \/ ShutdownFinish

SpecServer == InitServer /\ [][NextServer]_vars

\* Each wait of shutdown() is an asyncio.wait_for with a timeout of 2
\* seconds, a timer of the event loop: shutdown() is resumed whatever the
\* sessions and their clients do.  Nothing is assumed of the sessions.
SpecServerLive == SpecServer /\ WF_vars(ShutdownFinish)

----------------------------------------------------------------------------
\* A session that asks for no authentication and offers no STARTTLS, whose
\* client sends MaxTxnLines lines at most.
InitTxn ==
  /\ cfg \in { c \in Configs : ~c.required /\ ~c.tls_enabled /\ c.username = <<>> }
  /\ budget = MaxTxnLines
  /\ Fresh

\* The client sends MAIL, RCPT, DATA and RSET commands and message bodies.
NextTxn ==
  \/ HandleRset
  \/ HandleMail
  \/ HandleRcpt
  \/ HandleData
  \/ DataRead

\* Several transactions, one after the other, on one connection.
SpecTxn == InitTxn /\ [][NextTxn]_vars

----------------------------------------------------------------------------
(* Properties                                                              *)

\* C1: when auth.required is set and the session is not authenticated,
\* every MAIL, RCPT and DATA command is answered 530 and nothing else, the
\* session goes on awaiting a command (no body is read), and mail_from and
\* rcpt_to are left as they were.
C1_AuthRequiredRejects ==
  [][ (cfg.required /\ ~authenticated /\ (HandleMail \/ HandleRcpt \/ HandleData))
      => /\ out' = <<"530 Authentication required">>
         /\ pc' = "cmd"
         /\ UNCHANGED <<mail_from, rcpt_to, authenticated, store>> ]_vars

\* C1 witness: a command was refused with 530 in an unauthenticated session.
C1_Witness ==
  /\ cfg.required
  /\ ~authenticated
  /\ out = <<"530 Authentication required">>

\* C2: when auth.required is set, every Email handed to the store carries a
\* non-empty auth_user, whatever user name and password are configured and
\* whatever the client sends.
C2_StoredAuthUser ==
  cfg.required => \A i \in 1..Len(store) : store[i].auth_user # <<>>

\* C3: the step in which STARTTLS upgrades the connection leaves
\* authenticated false, auth_user and mail_from empty and rcpt_to empty,
\* whatever they were before.
C3_StartTlsClears ==
  [][ (tls' /\ out' = <<"220 Ready to start TLS">> /\ HandleStarttls)
      => /\ authenticated' = FALSE
         /\ auth_user' = <<>>
         /\ mail_from' = <<>>
         /\ rcpt_to' = <<>> ]_vars

\* C3 witness: the connection was just upgraded in a session that had
\* authenticated and stored a message before.
C3_Witness ==
  /\ tls
  /\ out = <<"220 Ready to start TLS">>
  /\ ~authenticated
  /\ Len(store) = 1
  /\ store[1].auth_user # <<>>

C5_NoPlaintextAfterStartTls ==
  [][ (tls /\ rbuf # <<>> /\ rbuf' = Tail(rbuf)) => rbuf[1].secure ]_vars

\* C6: every Email handed to the store has size_bytes equal to the length of
\* raw_message and at most max_message_bytes.
C6_StoredSize ==
  \A i \in 1..Len(store) :
    /\ store[i].size_bytes = Len(store[i].raw_message)
    /\ store[i].size_bytes <= cfg.max_message_bytes

\* C6 witness: a stored message of exactly max_message_bytes.
C6_Witness ==
  \E i \in 1..Len(store) :
    /\ store[i].size_bytes = cfg.max_message_bytes
    /\ Len(store[i].raw_message) = cfg.max_message_bytes

\* C7: every Email handed to the store has a non-empty sender and between 1
\* and max_recipients recipients.
C7_StoredEnvelope ==
  \A i \in 1..Len(store) :
    /\ store[i].sender # <<>>
    /\ Len(store[i].recipients) >= 1
    /\ Len(store[i].recipients) <= cfg.max_recipients

\* C7 witness: a stored message with max_recipients recipients.
C7_Witness ==
  \E i \in 1..Len(store) :
    /\ store[i].sender # <<>>
    /\ Len(store[i].recipients) = cfg.max_recipients

\* C8 as stated: DATA replies 354 and goes on to read the body only when
\* mail_from and rcpt_to are both non-empty; a DATA command issued when
\* either is empty is answered 503, changes no session state and reads no
\* body.
C8_DataNeedsEnvelope ==
  [][ HandleData
      => IF mail_from = <<>> \/ rcpt_to = <<>>
         THEN /\ out' = <<"503 Bad sequence of commands">>
              /\ pc' = "cmd"
              /\ UNCHANGED <<authenticated, auth_user, mail_from, rcpt_to, tls, store>>
         ELSE (pc' = "data" => out' = <<"354 Start mail input; end with <CRLF>.<CRLF>">>) ]_vars

\* C8 amended: DATA replies 354 and goes on to read the body only when
\* mail_from and rcpt_to are both non-empty; a DATA command issued when
\* either is empty is answered 503, or 530 when auth.required is set and the
\* session is not authenticated (that check comes first), and either way
\* changes no session state and reads no body.
C8_DataNeedsEnvelopeAfterAuth ==
  [][ HandleData
      => IF mail_from = <<>> \/ rcpt_to = <<>>
         THEN /\ out' = IF cfg.required /\ ~authenticated
                        THEN <<"530 Authentication required">>
                        ELSE <<"503 Bad sequence of commands">>
              /\ pc' = "cmd"
              /\ UNCHANGED <<authenticated, auth_user, mail_from, rcpt_to, tls, store>>
         ELSE (pc' = "data" => out' = <<"354 Start mail input; end with <CRLF>.<CRLF>">>) ]_vars

\* C8 witness: a DATA command was refused with 503 for a missing recipient
\* after a MAIL command had been accepted.
C8_Witness ==
  /\ out = <<"503 Bad sequence of commands">>
  /\ pc = "cmd"
  /\ mail_from # <<>>
  /\ rcpt_to = <<>>

\* C9 as stated: in every reachable state, rcpt_to is non-empty only when
\* mail_from is non-empty.
C9_RcptOnlyWithMail ==
  rcpt_to # <<>> => mail_from # <<>>

\* C9 amended: rcpt_to can be non-empty while mail_from is empty, since RCPT
\* is accepted before MAIL, but only while the session awaits a command:
\* whenever a message body is being read, mail_from is non-empty.
C9_RcptWithoutMailOutsideData ==
  (rcpt_to # <<>> /\ mail_from = <<>>) => pc # "data"

\* C9 witness: a RCPT command was accepted in a session without a sender.
C9_Witness ==
  /\ rcpt_to # <<>>
  /\ mail_from = <<>>
  /\ pc = "cmd"
  /\ out = <<"250 OK">>

\* C10 as stated: rcpt_to never holds more than max_recipients addresses; a
\* syntactically valid RCPT is answered 250 and appended exactly when rcpt_to
\* holds fewer than max_recipients before the command, and otherwise is
\* answered 452 and leaves rcpt_to as it was.
C10_RecipientLimit ==
  [][ /\ Len(rcpt_to') <= cfg.max_recipients
      /\ \A r \in Reads :
           (HandleRcptLine(r) /\ Parsed[r.id].has_to)
           => IF Len(rcpt_to) < cfg.max_recipients
              THEN /\ out' = <<"250 OK">>
                   /\ rcpt_to' = Append(rcpt_to, Parsed[r.id].rcpt_addr)
              ELSE /\ out' = <<"452 Too many recipients">>
                   /\ rcpt_to' = rcpt_to ]_vars

\* C10 amended: rcpt_to never holds more than max_recipients addresses; a
\* syntactically valid RCPT that passes the authentication check (without
\* it, it is answered 530 and leaves rcpt_to as it was) is answered 250 and
\* appended exactly when rcpt_to holds fewer than max_recipients before the
\* command, and otherwise is answered 452 and leaves rcpt_to as it was.
C10_RecipientLimitAfterAuth ==
  [][ /\ Len(rcpt_to') <= cfg.max_recipients
      /\ \A r \in Reads :
           (HandleRcptLine(r) /\ Parsed[r.id].has_to)
           => IF cfg.required /\ ~authenticated
              THEN /\ out' = <<"530 Authentication required">>
                   /\ rcpt_to' = rcpt_to
              ELSE IF Len(rcpt_to) < cfg.max_recipients
              THEN /\ out' = <<"250 OK">>
                   /\ rcpt_to' = Append(rcpt_to, Parsed[r.id].rcpt_addr)
              ELSE /\ out' = <<"452 Too many recipients">>
                   /\ rcpt_to' = rcpt_to ]_vars

\* C10 witness: a RCPT command was refused with 452 with rcpt_to full.
C10_Witness ==
  /\ Len(rcpt_to) = cfg.max_recipients
  /\ out = <<"452 Too many recipients">>

\* C11: the step that hands a completed message to the store, and every
\* RSET, leaves mail_from and rcpt_to empty and authenticated and auth_user
\* as they were before the command.
C11_ResetAfterDataAndRset ==
  [][ (Len(store') = Len(store) + 1 \/ HandleRset)
      => /\ mail_from' = <<>>
         /\ rcpt_to' = <<>>
         /\ UNCHANGED <<authenticated, auth_user>> ]_vars

\* C11 witness: a message of an authenticated session was just stored.
C11_Witness ==
  /\ out = <<"250 OK: Message accepted">>
  /\ Len(store) = 1
  /\ mail_from = <<>>
  /\ rcpt_to = <<>>
  /\ authenticated
  /\ auth_user = store[1].auth_user
  /\ auth_user # <<>>

\* C12: every EHLO and HELO leaves mail_from and rcpt_to empty and
\* authenticated and auth_user as they were before the command.
C12_EhloResets ==
  [][ HandleEhlo
      => /\ mail_from' = <<>>
         /\ rcpt_to' = <<>>
         /\ UNCHANGED <<authenticated, auth_user>> ]_vars

----------------------------------------------------------------------------
\* C13: every Email handed to the store has as its sender the address of the
\* last MAIL answered 250 and as its recipients exactly the addresses of the
\* RCPTs answered 250, in order, of the commands that follow the last RSET
\* or stored message (or 552 rejection); nothing enters it from a rejected
\* RCPT or from what came before.
C13_EmailFromNewSequence ==
  [][ Len(store') = Len(store) + 1
      => /\ store'[Len(store')].sender = txn.mail
         /\ store'[Len(store')].recipients = txn.rcpts ]_vars

\* Two messages stored on one connection, the second with another sender and
\* another recipient than the first.
C13_Witness ==
  /\ Len(store) = 2
  /\ store[1].sender = <<"a">> /\ store[1].recipients = << <<"a">> >>
  /\ store[2].sender = <<"c">> /\ store[2].recipients = << <<"b">> >>
  /\ txn = NoTxn

----------------------------------------------------------------------------
\* C14: every body line read in the data phase whose first byte is "." and
\* that is not the terminator is appended to the body with exactly one
\* leading "." removed.
C14_LeadingDotRemoved ==
  [][ \A r \in Reads :
        ( /\ pc = "data"
          /\ Len(data') = Len(data) + 1
          /\ r.kind = "line"
          /\ StartsWith(Lines[r.id], DOT)
          /\ ~IsTerminator(Lines[r.id])
          /\ DataReadLine(r, TRUE) )
        => data'[Len(data')] = Tail(Lines[r.id]) ]_vars

----------------------------------------------------------------------------
\* C15: when every body line the client sent was the dot-stuffed form of a
\* line of its message and the lone-dot terminator followed, the raw_message
\* handed to the store is the message as it was before stuffing, without
\* the terminator.
C15_UnstuffInvertsStuff ==
  [][ (Len(store') = Len(store) + 1 /\ orig.ok)
      => store'[Len(store')].raw_message = orig.body ]_vars

\* A stored message whose second line is ".", sent as "..".
C15_Witness ==
  /\ Len(store) = 1
  /\ store[1].raw_message = <<"a">> \o CRLF \o DOT \o CRLF
  /\ out = <<"250 OK: Message accepted">>

----------------------------------------------------------------------------
\* C16: a body line that brings the total (after unstuffing) to at most
\* max_message_bytes, and so to exactly max_message_bytes, is accepted, and
\* the body is stored with that size once the terminator is read and the
\* store takes the message; a line that brings the total to
\* max_message_bytes + 1 or more is answered 552 and nothing is stored.
C16_SizeBoundary ==
  [][ \A r \in Reads :
        (pc = "data" /\ r.kind = "line" /\ DataReadLine(r, TRUE))
        => LET line == Lines[r.id]
               total == total_size + Len(Unstuff(line))
           IN  IF IsTerminator(line)
               THEN /\ Len(store') = Len(store) + 1
                    /\ store'[Len(store')].size_bytes = total_size
                    /\ out' = <<"250 OK: Message accepted">>
               ELSE IF total <= cfg.max_message_bytes
               THEN /\ total_size' = total
                    /\ out' = <<>>
                    /\ pc' = "data"
                    /\ store' = store
               ELSE /\ out' = <<"552 Message too large">>
                    /\ store' = store
                    /\ pc' = "cmd" ]_vars

\* A stored message of exactly max_message_bytes bytes.
C16_Witness ==
  /\ Len(store) = 1
  /\ store[1].size_bytes = cfg.max_message_bytes
  /\ Len(store[1].raw_message) = MaxMessageBytes
  /\ out = <<"250 OK: Message accepted">>

----------------------------------------------------------------------------
\* C17: the step of the data phase that answers 552 stores nothing, empties
\* mail_from and rcpt_to and leaves the session open and awaiting a command;
\* a MAIL read right after it is refused for nothing but its syntax.
C17_TooLargeResets ==
  [][ /\ (pc = "data" /\ out' = <<"552 Message too large">>)
         => /\ store' = store
            /\ mail_from' = <<>>
            /\ rcpt_to' = <<>>
            /\ pc' = "cmd"
            /\ exit' = "none"
      /\ (out = <<"552 Message too large">> /\ HandleMail)
         => \/ out' = <<"501 Syntax error">> /\ mail_from' = <<>>
            \/ out' = <<"250 OK">> ]_vars

\* The session after a 552, the connection open and the client with lines
\* still to send.
C17_Witness ==
  /\ out = <<"552 Message too large">>
  /\ pc = "cmd"
  /\ mail_from = <<>> /\ rcpt_to = <<>>
  /\ store = <<>>
  /\ conn = "open"
  /\ sent < budget

----------------------------------------------------------------------------
\* C18: when the store fails to take the message after the terminator, the
\* session answers 451, empties mail_from and rcpt_to and goes on awaiting
\* commands.
C18_StoreFailureAnswered ==
  [][ \A r \in Reads :
        ( /\ pc = "data"
          /\ r.kind = "line"
          /\ IsTerminator(Lines[r.id])
          /\ DataReadLine(r, FALSE) )
        => /\ out' = <<"451 Requested action aborted: local error">>
           /\ mail_from' = <<>>
           /\ rcpt_to' = <<>>
           /\ store' = store
           /\ pc' = "cmd"
           /\ exit' = "none" ]_vars

----------------------------------------------------------------------------
\* C19: the step that ends a data phase, the connection not being lost,
\* answers "250 OK: Message accepted" exactly when it hands one Email to the
\* store, and answers with a reply that is not 2xx when it hands none.
C19_AcceptedIffCommitted ==
  [][ (pc = "data" /\ pc' # "data" /\ conn' # "reset")
      => /\ (out' = <<"250 OK: Message accepted">>)
              <=> (Len(store') = Len(store) + 1)
         /\ store' = store
              => out' \in { <<"421 Timeout">>,
                            <<"451 Requested action aborted: local error">>,
                            <<"552 Message too large">> } ]_vars

----------------------------------------------------------------------------
\* C20: a read that times out (nothing buffered, the connection open, no
\* line sent by the client and the connection still open afterwards),
\* whatever the session was awaiting, is answered 421 Timeout and nothing
\* else, and ends the session.
C20_TimeoutCloses ==
  [][ ( /\ pc \in {"cmd", "auth_plain", "login_user", "login_pass", "data"}
        /\ rbuf = <<>>
        /\ conn = "open"
        /\ UNCHANGED <<rbuf, conn, sent>> )
      => /\ out' = <<"421 Timeout">>
         /\ pc' = "closed"
         /\ exit' = "timeout" ]_vars

----------------------------------------------------------------------------
\* C21: once the read side of the connection is at end of file, handle()
\* eventually returns, whatever the session was awaiting.
C21_EofEndsSession == (conn = "eof") ~> (pc = "closed")

----------------------------------------------------------------------------
\* C24: the store is handed an Email only by a step of the data phase that
\* reads a terminator line (".\r\n" or ".\n"), and then exactly one, made of
\* the lines accumulated; every other step, the timeout, the end of file and
\* the loss of the connection in the middle of a body among them, leaves
\* the store as it was.
C24_StoreOnlyAtTerminator ==
  [][ store' # store
      => /\ pc = "data"
         /\ \A r \in Reads, created \in BOOLEAN :
              DataReadLine(r, created)
              => /\ r.kind = "line"
                 /\ Lines[r.id] \in {DOT \o CRLF, DOT \o LF}
         /\ Len(store') = Len(store) + 1
         /\ SubSeq(store', 1, Len(store)) = store
         /\ store'[Len(store')].raw_message = Join(data) ]_vars

\* A session that timed out in the middle of a body: lines were accumulated
\* and nothing was stored.
C24_Witness ==
  /\ pc = "closed"
  /\ exit = "timeout"
  /\ out = <<"421 Timeout">>
  /\ data # <<>>
  /\ mail_from # <<>>
  /\ store = <<>>

----------------------------------------------------------------------------
\* C25: the step that reads a line and answers an AUTH attempt with 535
\* leaves the session open and awaiting a command, and unauthenticated,
\* whatever it was before.
C25_FailedAuthUnauthenticated ==
  [][ ( /\ out' = <<"535 Authentication failed">>
        /\ (rbuf # <<>> \/ sent' > sent) )
      => /\ pc' = "cmd"
         /\ exit' = "none"
         /\ authenticated' = FALSE ]_vars

----------------------------------------------------------------------------
\* C26: authenticated is true only with auth_user equal to the configured
\* user name; the step that makes it true, and every step that answers 235,
\* is the end of an AUTH PLAIN or AUTH LOGIN exchange whose decoded user name
\* and password both equal the configured ones, and it answers 235 and sets
\* auth_user to that user name.
C26_AuthenticatedOnlyByMatch ==
  /\ [](authenticated => auth_user = cfg.username)
  /\ [][ ((authenticated' /\ ~authenticated) \/ out' = <<"235 Authentication successful">>)
         => /\ authenticated'
            /\ out' = <<"235 Authentication successful">>
            /\ auth_user' = cfg.username
            /\ HandleAuth \/ AuthPlainRead \/ AuthLoginPass
            /\ \A r \in Reads :
                 /\ HandleAuthLine(r)
                    => /\ Parsed[r.id].inline.ok
                       /\ Parsed[r.id].inline.val = <<cfg.username, cfg.password>>
                 /\ AuthPlainReadLine(r)
                    => /\ Parsed[r.id].blob.ok
                       /\ Parsed[r.id].blob.val = <<cfg.username, cfg.password>>
                 /\ AuthLoginPassLine(r)
                    => /\ username = cfg.username
                       /\ Parsed[r.id].login.ok
                       /\ Parsed[r.id].login.val = cfg.password ]_vars

\* A session just authenticated as the configured user "a".
C26_Witness ==
  /\ authenticated
  /\ cfg.username = <<"a">>
  /\ auth_user = <<"a">>
  /\ out = <<"235 Authentication successful">>

----------------------------------------------------------------------------
\* C27: the reply to EHLO or HELO has the line 250-STARTTLS exactly when TLS
\* is enabled in the configuration and the connection is not yet upgraded.
C27_StartTlsAdvertised ==
  [][ (Len(out') > 1 /\ HandleEhlo)
      => ( (\E i \in 1..Len(out') : out'[i] = "250-STARTTLS")
           <=> (cfg.tls_enabled /\ ~tls) ) ]_vars

----------------------------------------------------------------------------
\* C28: handle() returns only after QUIT, answered 221 Bye, after a read
\* that timed out, at end of file or on a broken connection, and reads
\* nothing after it has returned; a step whose last reply is one of 250,
\* 235, 452, 454, 500, 501, 502, 503, 504, 530, 535 and 552 leaves the
\* session open and awaiting the next command.
C28_SessionEnds ==
  [][ /\ pc # "closed"
      /\ pc' = "closed"
         => \/ exit' = "quit" /\ out' = <<"221 Bye">>
            \/ exit' \in {"timeout", "eof", "reset"}
      /\ (out' # <<>> /\
          out'[Len(out')] \in { "250 OK", "250 OK: Message accepted",
                                "235 Authentication successful",
                                "452 Too many recipients",
                                "454 TLS not available: <e>",
                                "500 Unknown command", "501 Syntax error",
                                "502 STARTTLS not available",
                                "503 Bad sequence of commands",
                                "504 Unsupported authentication mechanism",
                                "530 Authentication required",
                                "535 Authentication failed",
                                "552 Message too large" })
         => pc' = "cmd" /\ exit' = "none" ]_vars

----------------------------------------------------------------------------
\* C29: an RSET handled right after an RSET leaves mail_from, rcpt_to,
\* authenticated and auth_user as the RSET before it left them; hence so do
\* N RSETs in a row.
C29_RsetIdempotent ==
  [][ (rsets >= 1 /\ rsets' = rsets + 1)
      => /\ HandleRset
         /\ UNCHANGED <<mail_from, rcpt_to, authenticated, auth_user>> ]_vars

\* An authenticated session after MAIL and two RSETs in a row.
C29_Witness ==
  /\ rsets = 2
  /\ out = <<"250 OK">>
  /\ authenticated
  /\ auth_user # <<>>
  /\ mail_from = <<>> /\ rcpt_to = <<>>
  /\ sent >= 4

----------------------------------------------------------------------------
\* C30: a step of the command loop or of an AUTH exchange whose read found
\* the connection at end of file or broken (nothing was buffered) sends no
\* reply line.
C30_SilentAfterEof ==
  [][ ( /\ pc \in {"cmd", "auth_plain", "login_user", "login_pass"}
        /\ rbuf = <<>>
        /\ conn' \in {"eof", "reset"} )
      => out' = <<>> ]_vars

----------------------------------------------------------------------------
\* C22: the step that sets the shutdown event while the session is reading
\* a message body on an open connection does not close the connection of
\* that session: its client can still send the rest of the body.
C22_MidDataNotCut ==
  [][ ( /\ ~server.shutdown_event
        /\ server'.shutdown_event
        /\ pc = "data"
        /\ conn = "open" )
      => /\ conn' = "open"
         /\ 1 \notin server'.closing ]_vars

----------------------------------------------------------------------------
\* C23: once the shutdown event is set no connection is accepted and none
\* is registered; the step that sets it calls close() on every writer
\* registered then; and when shutdown() returns the listener is closed and
\* no connection is registered.
C23_ShutdownStopsAccepting ==
  [][ /\ server.shutdown_event
         => /\ \A c \in Conns : server.stage[c] = "none" => server'.stage[c] = "none"
            /\ server'.active_connections \subseteq server.active_connections
      /\ (~server.shutdown_event /\ server'.shutdown_event)
         => server.active_connections \subseteq server'.closing
      /\ (server.shutdown_pc # "done" /\ server'.shutdown_pc = "done")
         => /\ server'.listener = "closed"
            /\ server'.active_connections = {} ]_vars

----------------------------------------------------------------------------
\* C31: an AUTH PLAIN exchange whose decoded credential blob, split on NUL,
\* has neither two nor three fields (or cannot be decoded) is answered 535
\* and does not authenticate the session, whether the blob came on the AUTH
\* line or on the continuation line.
C31_PlainShapes ==
  [][ \A r \in Reads :
        /\ ( /\ pc = "cmd"
              /\ r.kind = "line"
              /\ Parsed[r.id].parts = 3
              /\ Parsed[r.id].mechanism = PLAIN_
              /\ Parsed[r.id].inline_n \notin {2, 3}
              /\ HandleAuthLine(r) )
           => /\ out' = <<"535 Authentication failed">>
              /\ authenticated' = authenticated
        /\ ( /\ pc = "auth_plain"
              /\ r.kind \in {"line", "eof"}
              /\ Parsed[r.id].blob_n \notin {2, 3}
              /\ AuthPlainReadLine(r) )
           => /\ out' = <<"535 Authentication failed">>
              /\ authenticated' = authenticated ]_vars

----------------------------------------------------------------------------
\* C34: a MAIL command answered 250 OK leaves mail_from non-empty, whatever
\* its address argument, so that the transaction it opens is seen as open
\* by DATA.
C34_MailOpensTransaction ==
  [][ \A r \in Reads :
        ( /\ pc = "cmd"
          /\ out' = <<"250 OK">>
          /\ HandleMailLine(r) )
        => mail_from' # <<>> ]_vars

----------------------------------------------------------------------------
\* C32: a connection is in the active set only while its session runner has
\* started and not finished; the runner registers the connection when it
\* starts, and when it ends, by a return or by an exception, the connection
\* is closed and no longer in the set.
C32_ActiveSetTracksRunners ==
  /\ [](\A c \in Conns :
          c \in server.active_connections => server.stage[c] = "handling")
  /\ [][ \A c \in Conns :
           /\ (server.stage[c] # "handling" /\ server'.stage[c] = "handling")
              => c \in server'.active_connections
           /\ (server.stage[c] = "handling" /\ server'.stage[c] = "done")
              => /\ c \notin server'.active_connections
                 /\ c \in server'.closing ]_vars

\* The session's runner was left by an exception while another connection's
\* runner is in progress: the first is closed and out of the set, the second
\* is in it.
C32_Witness ==
  /\ exit = "error"
  /\ server.stage[1] = "done"
  /\ 1 \notin server.active_connections
  /\ 1 \in server.closing
  /\ \E c \in Conns : c # 1 /\ server.stage[c] = "handling"
                          /\ c \in server.active_connections

----------------------------------------------------------------------------
============================================================================
